---- MODULE Spec2Model ----
(***************************************************************************)
(* Model of the GPS clock firmware in src/main.c: the main context (the    *)
(* startup sequence and the dispatch loop), the display bus driven through *)
(* max7219_cmd, the sampler-complete interrupt (adc_irq), the UBX frame    *)
(* encoder (ubx_send) and the receive queue between uart1_receive_irq and  *)
(* uart_read_byte.                                                         *)
(***************************************************************************)
EXTENDS Integers, Sequences, FiniteSets, TLC

(***************************************************************************)
(* Program constants                                                       *)
(***************************************************************************)
kNumDigits == 6
kNumSegments == 8
timezoneOffset == 13
AverageBufferSize == 16

(***************************************************************************)
(* Bounds of the model                                                     *)
(***************************************************************************)
\* sampler-complete interrupts served in one run of Spec
MaxAdcIrq == 1

\* slots of the receive queue (circbuf.h is not part of the excerpt)
CircBufSize == 3

\* bytes the receive interrupt delivers in one run of SpecQueue
MaxAppends == 4

\* longest payload enumerated byte by byte in SpecUbx; the long ones are 256 + 0..MaxPayloadLen
MaxPayloadLen == 2

\* direct max7219_set_digit_bcd (max7219_set_digit) calls in one run of SpecDigits
\* (SpecSetDigit)
MaxDigitCalls == 1

\* sampler-complete interrupts served in one run of SpecAdc: one more than the window
MaxSamples == 17

Byte == 0..255
Planes == 0..(kNumSegments - 1)

\* ADC readings drawn by the sampler (10-bit range, both ends)
AdcReadings == {0, 1023}

\* decoded times handed over by gps_read_time: <<hour, minute, second, day, month, year>>
TimeSamples == { <<9, 30, 45, 1, 11, 26>>, <<23, 59, 59, 31, 12, 99>> }

GpsReadStatus == {"kGPS_Success", "kGPS_NoMatch", "kGPS_NoSignal",
                  "kGPS_InvalidChecksum", "kGPS_BadFormat", "kGPS_UnknownState"}

(***************************************************************************)
(* 8-bit helpers                                                           *)
(***************************************************************************)
Pow2(k) == 2 ^ k

BitAt(x, k) == (x \div Pow2(k)) % 2

\* x | (1 << k) on a byte
SetBit(x, k) == IF BitAt(x, k) = 1 THEN x ELSE x + Pow2(k)

\* x & ~(1 << k) on a byte
ClearBit(x, k) == IF BitAt(x, k) = 1 THEN x - Pow2(k) ELSE x

RECURSIVE BitOrFrom(_, _, _)
BitOrFrom(x, y, k) ==
    IF k = 8 THEN 0
    ELSE (IF BitAt(x, k) = 1 \/ BitAt(y, k) = 1 THEN Pow2(k) ELSE 0) + BitOrFrom(x, y, k + 1)

BitOr(x, y) == BitOrFrom(x, y, 0)

RECURSIVE BitAndFrom(_, _, _)
BitAndFrom(x, y, k) ==
    IF k = 8 THEN 0
    ELSE (IF BitAt(x, k) = 1 /\ BitAt(y, k) = 1 THEN Pow2(k) ELSE 0) + BitAndFrom(x, y, k + 1)

BitAnd(x, y) == BitAndFrom(x, y, 0)

\* value of a byte read as int8_t, and an int stored into int8_t
ToInt8(x) == LET m == x % 256 IN IF m >= 128 THEN m - 256 ELSE m

(***************************************************************************)
(* Digit/segment plane mapper                                              *)
(***************************************************************************)
\* digitMap[kNumSegments]: six initialisers, the rest zero
digitMap == <<0, 4, 3, 1, 5, 2, 0, 0>>

bcdMap == <<63, 6, 91, 79, 102, 109, 125, 7, 127, 111, 64, 121, 118, 56, 115, 0>>

\* the loop of max7219_set_digit from plane i on: segments is shifted right each turn
RECURSIVE set_digit_loop(_, _, _, _)
set_digit_loop(planes, i, segments, mappedDigit) ==
    IF i = kNumSegments THEN planes
    ELSE set_digit_loop(
            [planes EXCEPT ![i] = IF segments % 2 = 1
                                  THEN SetBit(@, mappedDigit)
                                  ELSE ClearBit(@, mappedDigit)],
            i + 1, segments \div 2, mappedDigit)

\* the logical digit index is used as the bit position, without the wiring map
max7219_set_digit_unmapped(planes, digitRegister, segments) ==
    set_digit_loop(planes, 0, segments, digitRegister - 1)

max7219_set_digit(planes, digitRegister, segments) ==
    set_digit_loop(planes, 0, segments, digitMap[digitRegister])

\* the decimal-point bit of the value is not carried into the segments
max7219_set_digit_bcd_without_point(planes, digitRegister, value) ==
    max7219_set_digit(planes, digitRegister, bcdMap[BitAnd(value, 15) + 1])

max7219_set_digit_bcd(planes, digitRegister, value) ==
    LET segments == BitOr(bcdMap[BitAnd(value, 15) + 1], BitAnd(value, 128))
    IN  max7219_set_digit(planes, digitRegister, segments)

display_clear == [k \in Planes |-> 0]

\* the pattern stored for a logical digit: bit digitMap[i-1] of plane k read as bit k
RECURSIVE ReadDigitFrom(_, _, _)
ReadDigitFrom(planes, digitRegister, k) ==
    IF k = kNumSegments THEN 0
    ELSE BitAt(planes[k], digitMap[digitRegister]) * Pow2(k)
         + ReadDigitFrom(planes, digitRegister, k + 1)

ReadDigit(planes, digitRegister) == ReadDigitFrom(planes, digitRegister, 0)

(***************************************************************************)
(* Timezone adjustment and brightness average                              *)
(***************************************************************************)
\* DateTime as the flat byte array display_update reads: hour, minute, second first
HourField == 1

\* tens and ones by repeated subtraction (display_update, lines 321-327)
RECURSIVE SplitTens(_, _)
SplitTens(ones, tens) ==
    IF ones >= 10 THEN SplitTens(ones - 10, (tens + 1) % 256) ELSE <<tens, ones>>

\* the ones go to the left digit of each pair and the tens to the right one
RECURSIVE display_update_loop_ones_first(_, _, _, _)
display_update_loop_ones_first(planes, now, i, digit) ==
    IF i = 3 THEN planes
    ELSE LET s == SplitTens(now[i + 1], 0)
             p1 == max7219_set_digit_bcd(planes, digit, s[2])
             p2 == max7219_set_digit_bcd(p1, digit + 1, s[1])
         IN  display_update_loop_ones_first(p2, now, i + 1, digit + 2)

\* the loop of display_update over the first three bytes of the time value
RECURSIVE display_update_loop(_, _, _, _)
display_update_loop(planes, now, i, digit) ==
    IF i = 3 THEN planes
    ELSE LET s == SplitTens(now[i + 1], 0)
             p1 == max7219_set_digit_bcd(planes, digit, s[1])
             p2 == max7219_set_digit_bcd(p1, digit + 1, s[2])
         IN  display_update_loop(p2, now, i + 1, digit + 2)

(***************************************************************************)
(* State                                                                   *)
(***************************************************************************)
VARIABLES
    pc,               \* position of the main context
    ime,              \* interrupts enabled in the main context
    initIdx,          \* command of max7219_init being issued (0..3)
    animIdx,          \* i of the startup loop in main (0..6)
    wdIdx,            \* i of the loop in max7219_write_digits (0..7)
    cmdPhase,         \* position inside max7219_cmd: 0 outside, 1 selected, 2 address sent, 3 data sent
    cmdArgs,          \* <<address, data>> of the max7219_cmd call in progress
    segmentWiseData,  \* _segmentWiseData
    gpsTime,          \* _gpsTime
    status,           \* last GpsReadStatus returned by gps_read_time
    waitIndicator,    \* static of display_no_signal
    bus,              \* display bus events since the main context last asserted chip select
    cmds,             \* commands completed on the display bus since the main context
                      \* began its current statement or display function
    averageBuffer,    \* statics of display_adjust_brightness
    writeIndex,
    runningTotal,
    adcCount,         \* sampler interrupts served so far
    samples,          \* every reading display_adjust_brightness took, in order
    lastAverage,      \* the local average of the last display_adjust_brightness call
    upc,              \* position inside ubx_send
    msgClass, msgId, ubxData, ubxLength,   \* arguments of ubx_send
    header, checksum, \* locals of ubx_send
    ckSrc, ckLen, ckIdx,   \* ubx_update_checksum_multi: data, length, i
    sBytes, sLength,  \* uart_send_stream_blocking: bytes, length
    uartTx,           \* bytes loaded into UART1->DR by the current ubx_send
    uartTC,           \* UART1_SR_TC
    uartFrames,       \* frames completed so far
    cbData, cbWrite, cbRead,   \* _uartBuffer: slots, write index, read index
    rpc,              \* position of the main context inside uart_read_byte
    popValue,         \* byte loaded by circbuf_pop before it advances the read index
    appended,         \* every byte the receive interrupt appended, in order
    popped,           \* every byte uart_read_byte returned, in order
    overflowed,       \* more bytes were unread at some point than the queue has slots
    callDigit, callValue, callCount,  \* last max7219_set_digit_bcd call made directly
    callMask, callBefore,   \* last direct max7219_set_digit call: its mask, the planes before it
    tzOffset,         \* _timezoneOffset
    timeRead          \* the time as gps_read_time last handed it over

mainVars == <<pc, ime, initIdx, animIdx, wdIdx, cmdPhase, cmdArgs, segmentWiseData,
              gpsTime, status, waitIndicator>>
adcVars == <<averageBuffer, writeIndex, runningTotal, adcCount, samples, lastAverage>>
ubxVars == <<upc, msgClass, msgId, ubxData, ubxLength, header, checksum,
             ckSrc, ckLen, ckIdx, sBytes, sLength, uartTx, uartTC, uartFrames>>
busVars == <<bus, cmds>>
queueVars == <<cbData, cbWrite, cbRead, rpc, popValue, appended, popped, overflowed>>
digitVars == <<callDigit, callValue, callCount, callMask, callBefore>>
timeVars == <<tzOffset, timeRead>>
vars == <<mainVars, busVars, adcVars, ubxVars, queueVars, digitVars, timeVars>>

\* the adjusted hour is stored without being brought back into the day
apply_timezone_offset_no_wrap(now) ==
    [now EXCEPT ![HourField] = ToInt8(ToInt8(now[HourField]) + tzOffset) % 256]

\* apply_timezone_offset on the static _timezoneOffset
apply_timezone_offset(now) ==
    LET h0 == ToInt8(ToInt8(now[HourField]) + tzOffset)
        h1 == IF h0 > 23 THEN ToInt8(h0 - 24)
              ELSE IF h0 < 0 THEN ToInt8(h0 + 24)
              ELSE h0
    IN  [now EXCEPT ![HourField] = h1 % 256]

MainData ==
    /\ initIdx = 0
    /\ animIdx = 0
    /\ wdIdx = 0
    /\ cmdPhase = 0
    /\ cmdArgs = <<0, 0>>
    /\ segmentWiseData = [k \in Planes |-> 0]
    /\ gpsTime = <<0, 0, 0, 0, 0, 0>>
    /\ status = "none"
    /\ waitIndicator = 0
    /\ bus = << >>
    /\ cmds = << >>

MainRest == ime = FALSE /\ MainData

AdcInit ==
    /\ averageBuffer = [k \in 0..(AverageBufferSize - 1) |-> 0]
    /\ writeIndex = 0
    /\ runningTotal = 0
    /\ adcCount = 0
    /\ samples = << >>
    /\ lastAverage = 0

UbxIdle ==
    /\ upc = "idle"
    /\ msgClass = 0 /\ msgId = 0 /\ ubxData = << >> /\ ubxLength = 0
    /\ header = << >> /\ checksum = <<0, 0>>
    /\ ckSrc = << >> /\ ckLen = 0 /\ ckIdx = 0
    /\ sBytes = << >> /\ sLength = 0
    /\ uartTx = << >> /\ uartTC = TRUE /\ uartFrames = << >>

MainInit == pc = "enable" /\ MainRest

QueueIdle ==
    /\ cbData = [k \in 0..(CircBufSize - 1) |-> 0]
    /\ cbWrite = 0 /\ cbRead = 0
    /\ rpc = "idle"
    /\ popValue = 0
    /\ appended = << >> /\ popped = << >>
    /\ overflowed = FALSE

DigitIdle ==
    /\ callDigit = 0 /\ callValue = 0 /\ callCount = 0
    /\ callMask = 0 /\ callBefore = [k \in Planes |-> 0]

\* lines 37-38
TimeIdle == tzOffset = timezoneOffset /\ timeRead = <<0, 0, 0, 0, 0, 0>>

Init == MainInit /\ AdcInit /\ UbxIdle /\ QueueIdle /\ DigitIdle /\ TimeIdle

(***************************************************************************)
(* Display bus: max7219_cmd, step by step                                  *)
(***************************************************************************)
CsLow(ctx) == [ev |-> "cs_low", val |-> 0, ctx |-> ctx]
CsHigh(ctx) == [ev |-> "cs_high", val |-> 1, ctx |-> ctx]
SpiByte(b, ctx) == [ev |-> "byte", val |-> b, ctx |-> ctx]

\* a completed command: chip select released after its two bytes
Cmd(address, data, ctx) == [address |-> address, data |-> data, ctx |-> ctx]

\* what one uninterrupted max7219_cmd(address, data) puts on the bus
CmdFrame(address, data, ctx) ==
    <<CsLow(ctx), SpiByte(address, ctx), SpiByte(data, ctx), CsHigh(ctx)>>

\* the output is enabled first, before decode mode, scan limit and test mode are set
InitCmds_enable_first == << <<12, 1>>, <<9, 0>>, <<11, 7>>, <<15, 0>> >>

\* the four commands of max7219_init, in order
InitCmds == << <<9, 0>>, <<11, 7>>, <<15, 0>>, <<12, 1>> >>

\* positions of the main context at which max7219_write_digits is running
WdLabels == {"wd0", "anim_wd", "wd1", "du_wd", "ns_wd", "err_wd"}

\* positions at which a statement of main() starts with a display command
StatementLabels == {"init", "wd0", "intensity", "anim_wd", "wd1"}

\* the max7219_cmd call the main context is at
CurCmd ==
    IF pc = "init" THEN InitCmds[initIdx + 1]
    ELSE IF pc = "intensity" THEN <<10, 10>>
    ELSE <<wdIdx + 1, segmentWiseData[wdIdx]>>

AtCmd == pc = "init" \/ pc = "intensity" \/ pc \in WdLabels

\* where max7219_write_digits returns to
AfterWd(l) ==
    CASE l = "wd0" -> "intensity"
      [] l = "anim_wd" -> "anim_clr"
      [] l = "wd1" -> "gps_tp5"
      [] l = "du_wd" -> "du_enable"
      [] l = "ns_wd" -> "read"
      [] l = "err_wd" -> "read"

\* line 172: chip select asserted; the arguments are those of the call
max7219_cmd_select ==
    /\ AtCmd /\ cmdPhase = 0
    /\ cmdArgs' = CurCmd
    /\ cmdPhase' = 1
    /\ bus' = <<CsLow("main")>>
    /\ cmds' = (IF pc \in StatementLabels /\ initIdx = 0 /\ wdIdx = 0 THEN << >> ELSE cmds)
    /\ UNCHANGED <<pc, ime, initIdx, animIdx, wdIdx, segmentWiseData, gpsTime, status,
                   waitIndicator, adcVars, ubxVars>>
    /\ UNCHANGED <<queueVars, digitVars, timeVars>>

\* line 174
max7219_cmd_address ==
    /\ cmdPhase = 1
    /\ cmdPhase' = 2
    /\ bus' = Append(bus, SpiByte(cmdArgs[1], "main"))
    /\ UNCHANGED cmds
    /\ UNCHANGED <<pc, ime, initIdx, animIdx, wdIdx, cmdArgs, segmentWiseData, gpsTime,
                   status, waitIndicator, adcVars, ubxVars>>
    /\ UNCHANGED <<queueVars, digitVars, timeVars>>

\* line 175
max7219_cmd_data ==
    /\ cmdPhase = 2
    /\ cmdPhase' = 3
    /\ bus' = Append(bus, SpiByte(cmdArgs[2], "main"))
    /\ UNCHANGED cmds
    /\ UNCHANGED <<pc, ime, initIdx, animIdx, wdIdx, cmdArgs, segmentWiseData, gpsTime,
                   status, waitIndicator, adcVars, ubxVars>>
    /\ UNCHANGED <<queueVars, digitVars, timeVars>>

\* lines 178-182: chip select released, the call returns into its caller's loop
max7219_cmd_release ==
    /\ cmdPhase = 3
    /\ cmdPhase' = 0
    /\ bus' = Append(bus, CsHigh("main"))
    /\ cmds' = Append(cmds, Cmd(cmdArgs[1], cmdArgs[2], "main"))
    /\ IF pc = "init"
       THEN /\ initIdx' = (IF initIdx = 3 THEN 0 ELSE initIdx + 1)
            /\ pc' = (IF initIdx = 3 THEN "wd0" ELSE pc)
            /\ UNCHANGED wdIdx
       ELSE IF pc = "intensity"
       THEN /\ pc' = "anim_set"
            /\ UNCHANGED <<initIdx, wdIdx>>
       ELSE /\ wdIdx' = (IF wdIdx = kNumSegments - 1 THEN 0 ELSE wdIdx + 1)
            /\ pc' = (IF wdIdx = kNumSegments - 1 THEN AfterWd(pc) ELSE pc)
            /\ UNCHANGED initIdx
    /\ UNCHANGED <<ime, animIdx, cmdArgs, segmentWiseData, gpsTime, status, waitIndicator,
                   adcVars, ubxVars>>
    /\ UNCHANGED <<queueVars, digitVars, timeVars>>

(***************************************************************************)
(* Sampler-complete interrupt                                              *)
(***************************************************************************)
\* the slot about to be overwritten is not taken off the running total
display_adjust_brightness_keeps_evicted(buf, wi, total, reading) ==
    LET t2 == (total + reading) % 65536
        average == t2 \div AverageBufferSize
    IN  [buf |-> [buf EXCEPT ![wi] = reading],
         wi |-> (wi + 1) % AverageBufferSize,
         total |-> t2,
         average |-> average,
         data |-> (average \div 64) % 256]

\* the write index moves on by two slots
display_adjust_brightness_skips_slot(buf, wi, total, reading) ==
    LET t1 == (total - buf[wi]) % 65536
        t2 == (t1 + reading) % 65536
        average == t2 \div AverageBufferSize
    IN  [buf |-> [buf EXCEPT ![wi] = reading],
         wi |-> (wi + 2) % AverageBufferSize,
         total |-> t2,
         average |-> average,
         data |-> (average \div 64) % 256]

\* the average goes out as the intensity without the division by 64
display_adjust_brightness_unscaled(buf, wi, total, reading) ==
    LET t1 == (total - buf[wi]) % 65536
        t2 == (t1 + reading) % 65536
        average == t2 \div AverageBufferSize
    IN  [buf |-> [buf EXCEPT ![wi] = reading],
         wi |-> (wi + 1) % AverageBufferSize,
         total |-> t2,
         average |-> average,
         data |-> average % 256]

\* display_adjust_brightness on the statics <<averageBuffer, writeIndex, runningTotal>>:
\* the new statics, the local average and the data byte of the intensity command
display_adjust_brightness(buf, wi, total, reading) ==
    LET t1 == (total - buf[wi]) % 65536
        t2 == (t1 + reading) % 65536
        average == t2 \div AverageBufferSize
    IN  [buf |-> [buf EXCEPT ![wi] = reading],
         wi |-> (wi + 1) % AverageBufferSize,
         total |-> t2,
         average |-> average,
         data |-> (average \div 64) % 256]

\* sampler interrupts a run serves: MaxSamples while the main context only waits
AdcLimit == IF pc = "sampling" THEN MaxSamples ELSE MaxAdcIrq

\* the interrupt also writes the decimal-point plane
adc_irq_writes_plane ==
    /\ ime
    /\ adcCount < AdcLimit
    /\ \E reading \in AdcReadings :
         LET r == display_adjust_brightness(averageBuffer, writeIndex, runningTotal, reading)
         IN  /\ averageBuffer' = r.buf
             /\ writeIndex' = r.wi
             /\ runningTotal' = r.total
             /\ lastAverage' = r.average
             /\ samples' = Append(samples, reading)
             /\ bus' = bus \o CmdFrame(10, r.data, "adc")
             /\ cmds' = Append(cmds, Cmd(10, r.data, "adc"))
    /\ adcCount' = adcCount + 1
    /\ segmentWiseData' = [segmentWiseData EXCEPT ![7] = 4]
    /\ UNCHANGED <<pc, ime, initIdx, animIdx, wdIdx, cmdPhase, cmdArgs, gpsTime, status,
                   waitIndicator, ubxVars>>
    /\ UNCHANGED <<queueVars, digitVars, timeVars>>

\* adc_irq: runs to completion, whenever the main context has interrupts enabled
adc_irq ==
    /\ ime
    /\ adcCount < AdcLimit
    /\ \E reading \in AdcReadings :
         LET r == display_adjust_brightness(averageBuffer, writeIndex, runningTotal, reading)
         IN  /\ averageBuffer' = r.buf
             /\ writeIndex' = r.wi
             /\ runningTotal' = r.total
             /\ lastAverage' = r.average
             /\ samples' = Append(samples, reading)
             /\ bus' = bus \o CmdFrame(10, r.data, "adc")
             /\ cmds' = Append(cmds, Cmd(10, r.data, "adc"))
    /\ adcCount' = adcCount + 1
    /\ UNCHANGED <<mainVars, ubxVars>>
    /\ UNCHANGED <<queueVars, digitVars, timeVars>>

(***************************************************************************)
(* UBX frame encoder                                                       *)
(***************************************************************************)
\* UBX_VALUE_* of ubxgps.h: a value as its little-endian bytes (two's complement
\* for the signed ones: \div rounds down and % is non-negative)
UBX_VALUE_U8(x) == <<x % 256>>
UBX_VALUE_U16(x) == <<x % 256, (x \div 256) % 256>>
UBX_VALUE_S16(x) == UBX_VALUE_U16(x)
UBX_VALUE_U32(x) ==
    <<x % 256, (x \div 256) % 256, (x \div 65536) % 256, (x \div 16777216) % 256>>
UBX_VALUE_S32(x) == UBX_VALUE_U32(x)

\* the time-pulse payload with its last field (the flags) left out
cfg_tp5_data_without_flags ==
    UBX_VALUE_U8(0) \o UBX_VALUE_U8(0) \o UBX_VALUE_U16(0) \o UBX_VALUE_S16(50)
    \o UBX_VALUE_S16(0) \o UBX_VALUE_U32(0) \o UBX_VALUE_U32(1) \o UBX_VALUE_U32(1000)
    \o UBX_VALUE_U32(10000) \o UBX_VALUE_S32(0)

cfg_tp5_data ==
    UBX_VALUE_U8(0) \o UBX_VALUE_U8(0) \o UBX_VALUE_U16(0) \o UBX_VALUE_S16(50)
    \o UBX_VALUE_S16(0) \o UBX_VALUE_U32(0) \o UBX_VALUE_U32(1) \o UBX_VALUE_U32(1000)
    \o UBX_VALUE_U32(10000) \o UBX_VALUE_S32(0) \o UBX_VALUE_U32(255)

cfg_nav5_data ==
    UBX_VALUE_U16(63) \o UBX_VALUE_U8(2) \o UBX_VALUE_U8(3) \o UBX_VALUE_U32(0)
    \o UBX_VALUE_U32(0) \o UBX_VALUE_U8(20) \o UBX_VALUE_U8(180) \o UBX_VALUE_U16(100)
    \o UBX_VALUE_U16(100) \o UBX_VALUE_U16(100) \o UBX_VALUE_U16(100) \o UBX_VALUE_U8(0)
    \o UBX_VALUE_U8(60) \o UBX_VALUE_U32(0) \o UBX_VALUE_U32(0) \o UBX_VALUE_U32(0)

\* the second sum fed with the byte instead of the first sum
ubx_update_checksum_b_adds_value(ck, value) ==
    LET a == (ck[1] + value) % 256
    IN  <<a, (ck[2] + value) % 256>>

ubx_update_checksum(ck, value) ==
    LET a == (ck[1] + value) % 256
    IN  <<a, (ck[2] + a) % 256>>

\* lines 78-89: ubx_send entered with its arguments, header built, checksum reset,
\* about to fold the header minus its two sync bytes
ubx_send_entry(c, id, data, length) ==
    LET h == <<181, 98, c, id, length % 256, (length \div 256) % 256>>
    IN  [msgClass |-> c, msgId |-> id, ubxData |-> data, ubxLength |-> length,
         header |-> h, checksum |-> <<0, 0>>,
         ckSrc |-> SubSeq(h, 3, 6), ckLen |-> 4, ckIdx |-> 0]

ubx_send_call(c, id, data, length) ==
    LET e == ubx_send_entry(c, id, data, length)
    IN  /\ upc' = "ck_hdr"
        /\ msgClass' = e.msgClass /\ msgId' = e.msgId
        /\ ubxData' = e.ubxData /\ ubxLength' = e.ubxLength
        /\ header' = e.header /\ checksum' = e.checksum
        /\ ckSrc' = e.ckSrc /\ ckLen' = e.ckLen /\ ckIdx' = e.ckIdx
        /\ uartTx' = << >>
        /\ UNCHANGED <<sBytes, sLength, uartTC, uartFrames>>

CkLabels == {"ck_hdr", "ck_data"}
TxLabels == {"tx_hdr", "tx_data", "tx_ck"}

\* one turn of the loop of ubx_update_checksum_multi
ubx_update_checksum_multi_step ==
    /\ upc \in CkLabels
    /\ ckIdx < ckLen
    /\ checksum' = ubx_update_checksum(checksum, ckSrc[ckIdx + 1])
    /\ ckIdx' = (ckIdx + 1) % 65536
    /\ UNCHANGED <<upc, msgClass, msgId, ubxData, ubxLength, header, ckSrc, ckLen,
                   sBytes, sLength, uartTx, uartTC, uartFrames>>
    /\ UNCHANGED <<mainVars, busVars, adcVars>>
    /\ UNCHANGED <<queueVars, digitVars, timeVars>>

\* the loop ends: line 90 after line 89, line 93 after line 90
ubx_update_checksum_multi_return ==
    /\ upc \in CkLabels
    /\ ckIdx >= ckLen
    /\ IF upc = "ck_hdr"
       THEN /\ upc' = "ck_data"
            /\ ckSrc' = ubxData /\ ckLen' = ubxLength /\ ckIdx' = 0
            /\ UNCHANGED <<sBytes, sLength>>
       ELSE /\ upc' = "tx_hdr"
            /\ sBytes' = header /\ sLength' = 6
            /\ UNCHANGED <<ckSrc, ckLen, ckIdx>>
    /\ UNCHANGED <<msgClass, msgId, ubxData, ubxLength, header, checksum,
                   uartTx, uartTC, uartFrames>>
    /\ UNCHANGED <<mainVars, busVars, adcVars>>
    /\ UNCHANGED <<queueVars, digitVars, timeVars>>

\* the byte is put into the data register without the wait for UART1_SR_TC
uart_send_blocking_without_wait ==
    /\ upc \in TxLabels
    /\ sLength > 0
    /\ uartTx' = Append(uartTx, Head(sBytes))
    /\ uartTC' = FALSE
    /\ sLength' = sLength - 1
    /\ sBytes' = Tail(sBytes)
    /\ UNCHANGED <<upc, msgClass, msgId, ubxData, ubxLength, header, checksum,
                   ckSrc, ckLen, ckIdx, uartFrames>>
    /\ UNCHANGED <<mainVars, busVars, adcVars>>
    /\ UNCHANGED <<queueVars, digitVars, timeVars>>

\* uart_send_blocking inside the loop of uart_send_stream_blocking
uart_send_blocking ==
    /\ upc \in TxLabels
    /\ sLength > 0
    /\ uartTC
    /\ uartTx' = Append(uartTx, Head(sBytes))
    /\ uartTC' = FALSE
    /\ sLength' = sLength - 1
    /\ sBytes' = Tail(sBytes)
    /\ UNCHANGED <<upc, msgClass, msgId, ubxData, ubxLength, header, checksum,
                   ckSrc, ckLen, ckIdx, uartFrames>>
    /\ UNCHANGED <<mainVars, busVars, adcVars>>
    /\ UNCHANGED <<queueVars, digitVars, timeVars>>

\* the transmitter finishes the byte in its data register
uart_tx_complete ==
    /\ ~uartTC
    /\ uartTC' = TRUE
    /\ UNCHANGED <<upc, msgClass, msgId, ubxData, ubxLength, header, checksum,
                   ckSrc, ckLen, ckIdx, sBytes, sLength, uartTx, uartFrames>>
    /\ UNCHANGED <<mainVars, busVars, adcVars>>
    /\ UNCHANGED <<queueVars, digitVars, timeVars>>

\* the uint8_t length parameter of uart_send_stream_blocking
StreamLength(length) == length % 256

\* uart_send_stream_blocking returns: line 94 after 93, line 95 after 94, line 99 after 95
uart_send_stream_return ==
    /\ upc \in TxLabels
    /\ sLength = 0
    /\ IF upc = "tx_hdr"
       THEN /\ upc' = "tx_data"
            /\ sBytes' = ubxData /\ sLength' = StreamLength(ubxLength)
       ELSE IF upc = "tx_data"
       THEN /\ upc' = "tx_ck"
            /\ sBytes' = checksum /\ sLength' = StreamLength(2)
       ELSE /\ upc' = "delay"
            /\ UNCHANGED <<sBytes, sLength>>
    /\ UNCHANGED <<msgClass, msgId, ubxData, ubxLength, header, checksum,
                   ckSrc, ckLen, ckIdx, uartTx, uartTC, uartFrames>>
    /\ UNCHANGED <<mainVars, busVars, adcVars>>
    /\ UNCHANGED <<queueVars, digitVars, timeVars>>

\* line 99: the fixed delay, then ubx_send returns
ubx_send_return ==
    /\ upc = "delay"
    /\ upc' = "done"
    /\ uartFrames' = Append(uartFrames, uartTx)
    /\ UNCHANGED <<msgClass, msgId, ubxData, ubxLength, header, checksum,
                   ckSrc, ckLen, ckIdx, sBytes, sLength, uartTx, uartTC>>
    /\ UNCHANGED <<mainVars, busVars, adcVars>>
    /\ UNCHANGED <<queueVars, digitVars, timeVars>>

UbxNext ==
    \/ ubx_update_checksum_multi_step
    \/ ubx_update_checksum_multi_return
    \/ uart_send_blocking
    \/ uart_tx_complete
    \/ uart_send_stream_return
    \/ ubx_send_return

(***************************************************************************)
(* Main context: startup sequence of main()                                *)
(***************************************************************************)
\* line 500
main_enableInterrupts ==
    /\ pc = "enable"
    /\ ime' = TRUE
    /\ pc' = "init"
    /\ UNCHANGED <<initIdx, animIdx, wdIdx, cmdPhase, cmdArgs, segmentWiseData, gpsTime,
                   status, waitIndicator, busVars, adcVars, ubxVars>>
    /\ UNCHANGED <<queueVars, digitVars, timeVars>>

\* line 509 (and the loop test of line 508)
main_outline_set ==
    /\ pc = "anim_set"
    /\ IF animIdx < 6
       THEN /\ segmentWiseData' = [segmentWiseData EXCEPT ![animIdx] = 255]
            /\ pc' = "anim_wd"
       ELSE /\ pc' = "wd1"
            /\ UNCHANGED segmentWiseData
    /\ UNCHANGED <<ime, initIdx, animIdx, wdIdx, cmdPhase, cmdArgs, gpsTime, status,
                   waitIndicator, busVars, adcVars, ubxVars>>
    /\ UNCHANGED <<queueVars, digitVars, timeVars>>

\* lines 512-513 and ++i
main_outline_clear ==
    /\ pc = "anim_clr"
    /\ segmentWiseData' = [segmentWiseData EXCEPT ![animIdx] = 0]
    /\ animIdx' = animIdx + 1
    /\ pc' = "anim_set"
    /\ UNCHANGED <<ime, initIdx, wdIdx, cmdPhase, cmdArgs, gpsTime, status,
                   waitIndicator, busVars, adcVars, ubxVars>>
    /\ UNCHANGED <<queueVars, digitVars, timeVars>>

\* gps_init, line 121
gps_init_tp5 ==
    /\ pc = "gps_tp5" /\ upc = "idle"
    /\ ubx_send_call(6, 49, cfg_tp5_data, Len(cfg_tp5_data))
    /\ UNCHANGED <<mainVars, busVars, adcVars>>
    /\ UNCHANGED <<queueVars, digitVars, timeVars>>

\* gps_init, line 145
gps_init_nav5 ==
    /\ pc = "gps_tp5" /\ upc = "done"
    /\ pc' = "gps_nav5"
    /\ ubx_send_call(6, 36, cfg_nav5_data, Len(cfg_nav5_data))
    /\ UNCHANGED <<ime, initIdx, animIdx, wdIdx, cmdPhase, cmdArgs, segmentWiseData,
                   gpsTime, status, waitIndicator, busVars, adcVars>>
    /\ UNCHANGED <<queueVars, digitVars, timeVars>>

\* gps_init returns into the loop of main
gps_init_return ==
    /\ pc = "gps_nav5" /\ upc = "done"
    /\ pc' = "read"
    /\ upc' = "idle"
    /\ UNCHANGED <<ime, initIdx, animIdx, wdIdx, cmdPhase, cmdArgs, segmentWiseData,
                   gpsTime, status, waitIndicator, busVars, adcVars>>
    /\ UNCHANGED <<msgClass, msgId, ubxData, ubxLength, header, checksum,
                   ckSrc, ckLen, ckIdx, sBytes, sLength, uartTx, uartTC, uartFrames>>
    /\ UNCHANGED <<queueVars, digitVars, timeVars>>

(***************************************************************************)
(* Main context: the dispatch loop                                         *)
(***************************************************************************)
\* lines 522-553: gps_read_time hands back a status (and a time with kGPS_Success),
\* the switch picks the display action
gps_read_time ==
    /\ pc = "read"
    /\ \E st \in GpsReadStatus :
         /\ status' = st
         /\ IF st = "kGPS_Success"
            THEN \E t \in TimeSamples : gpsTime' = t /\ timeRead' = t
            ELSE UNCHANGED <<gpsTime, timeRead>>
         /\ pc' = CASE st = "kGPS_Success" -> "tz"
                    [] st = "kGPS_NoMatch" -> "read"
                    [] st = "kGPS_NoSignal" -> "ns"
                    [] OTHER -> "err"
    /\ UNCHANGED <<ime, initIdx, animIdx, wdIdx, cmdPhase, cmdArgs, segmentWiseData,
                   waitIndicator, busVars, adcVars, ubxVars>>
    /\ UNCHANGED <<queueVars, digitVars, tzOffset>>

\* line 527
main_apply_timezone_offset ==
    /\ pc = "tz"
    /\ gpsTime' = apply_timezone_offset(gpsTime)
    /\ pc' = "du_disable"
    /\ UNCHANGED <<ime, initIdx, animIdx, wdIdx, cmdPhase, cmdArgs, segmentWiseData,
                   status, waitIndicator, busVars, adcVars, ubxVars>>
    /\ UNCHANGED <<queueVars, digitVars, timeVars>>

\* display_update entered without disableInterrupts()
display_update_begin_keep_enabled ==
    /\ pc = "du_disable"
    /\ pc' = "du_digits"
    /\ bus' = << >>
    /\ cmds' = << >>
    /\ UNCHANGED <<ime, initIdx, animIdx, wdIdx, cmdPhase, cmdArgs, segmentWiseData, gpsTime,
                   status, waitIndicator, adcVars, ubxVars>>
    /\ UNCHANGED <<queueVars, digitVars, timeVars>>

\* display_update, line 312
display_update_begin ==
    /\ pc = "du_disable"
    /\ ime' = FALSE
    /\ pc' = "du_digits"
    /\ bus' = << >>
    /\ cmds' = << >>
    /\ UNCHANGED <<initIdx, animIdx, wdIdx, cmdPhase, cmdArgs, segmentWiseData, gpsTime,
                   status, waitIndicator, adcVars, ubxVars>>
    /\ UNCHANGED <<queueVars, digitVars, timeVars>>

\* display_update, lines 315-331
display_update_digits ==
    /\ pc = "du_digits"
    /\ segmentWiseData' = display_update_loop(segmentWiseData, gpsTime, 0, 1)
    /\ pc' = "du_wd"
    /\ UNCHANGED <<ime, initIdx, animIdx, wdIdx, cmdPhase, cmdArgs, gpsTime, status,
                   waitIndicator, busVars, adcVars, ubxVars>>
    /\ UNCHANGED <<queueVars, digitVars, timeVars>>

\* display_update returning without enableInterrupts()
display_update_end_keep_disabled ==
    /\ pc = "du_enable"
    /\ pc' = "read"
    /\ UNCHANGED <<ime, initIdx, animIdx, wdIdx, cmdPhase, cmdArgs, segmentWiseData, gpsTime,
                   status, waitIndicator, busVars, adcVars, ubxVars>>
    /\ UNCHANGED <<queueVars, digitVars, timeVars>>

\* display_update, line 335
display_update_end ==
    /\ pc = "du_enable"
    /\ ime' = TRUE
    /\ pc' = "read"
    /\ UNCHANGED <<initIdx, animIdx, wdIdx, cmdPhase, cmdArgs, segmentWiseData, gpsTime,
                   status, waitIndicator, busVars, adcVars, ubxVars>>
    /\ UNCHANGED <<queueVars, digitVars, timeVars>>

\* display_no_signal without its display_clear()
display_no_signal_digits_no_clear ==
    /\ pc = "ns"
    /\ segmentWiseData' = max7219_set_digit_bcd(segmentWiseData, waitIndicator + 1, 143)
    /\ waitIndicator' = (IF waitIndicator + 1 = kNumDigits THEN 0 ELSE waitIndicator + 1)
    /\ pc' = "ns_wd"
    /\ bus' = << >>
    /\ cmds' = << >>
    /\ UNCHANGED <<ime, initIdx, animIdx, wdIdx, cmdPhase, cmdArgs, gpsTime, status,
                   adcVars, ubxVars>>
    /\ UNCHANGED <<queueVars, digitVars, timeVars>>

\* display_no_signal, lines 350-360
display_no_signal_digits ==
    /\ pc = "ns"
    /\ segmentWiseData' = max7219_set_digit_bcd(display_clear, waitIndicator + 1, 143)
    /\ waitIndicator' = (IF waitIndicator + 1 = kNumDigits THEN 0 ELSE waitIndicator + 1)
    /\ pc' = "ns_wd"
    /\ bus' = << >>
    /\ cmds' = << >>
    /\ UNCHANGED <<ime, initIdx, animIdx, wdIdx, cmdPhase, cmdArgs, gpsTime, status,
                   adcVars, ubxVars>>
    /\ UNCHANGED <<queueVars, digitVars, timeVars>>

\* the argument of display_error_code for a status (lines 540-552)
ErrorCode(st) ==
    CASE st = "kGPS_InvalidChecksum" -> 1
      [] st = "kGPS_BadFormat" -> 2
      [] st = "kGPS_UnknownState" -> 3

\* display_error_code, lines 367-372
display_error_code_digits ==
    /\ pc = "err"
    /\ segmentWiseData' =
         max7219_set_digit_bcd(
            max7219_set_digit(max7219_set_digit_bcd(display_clear, 1, 11), 2, 80),
            3, ErrorCode(status))
    /\ pc' = "err_wd"
    /\ bus' = << >>
    /\ cmds' = << >>
    /\ UNCHANGED <<ime, initIdx, animIdx, wdIdx, cmdPhase, cmdArgs, gpsTime, status,
                   waitIndicator, adcVars, ubxVars>>
    /\ UNCHANGED <<queueVars, digitVars, timeVars>>

Next ==
    \/ main_enableInterrupts
    \/ max7219_cmd_select
    \/ max7219_cmd_address
    \/ max7219_cmd_data
    \/ max7219_cmd_release
    \/ main_outline_set
    \/ main_outline_clear
    \/ gps_init_tp5
    \/ gps_init_nav5
    \/ gps_init_return
    \/ UbxNext
    \/ gps_read_time
    \/ main_apply_timezone_offset
    \/ display_update_begin
    \/ display_update_digits
    \/ display_update_end
    \/ display_no_signal_digits
    \/ display_error_code_digits
    \/ adc_irq

Spec == Init /\ [][Next]_vars

(***************************************************************************)
(* ubx_send on its own: the arguments are drawn in the initial state       *)
(***************************************************************************)
ByteSamples == {0, 1, 128, 255}

RECURSIVE SeqsOfLen(_, _)
SeqsOfLen(S, n) ==
    IF n = 0 THEN {<< >>}
    ELSE {Append(q, x) : q \in SeqsOfLen(S, n - 1), x \in S}

\* payloads of 256 bytes and more carry a ramp
RampPayload(n) == [i \in 1..n |-> (i + 253) % 256]

PayloadSamples ==
    UNION {SeqsOfLen(ByteSamples, n) : n \in 0..MaxPayloadLen}
    \cup {RampPayload(256 + n) : n \in 0..MaxPayloadLen}
    \cup {cfg_tp5_data, cfg_nav5_data}

ClassIdSamples == {<<6, 49>>, <<6, 36>>, <<255, 255>>, <<128, 1>>}

UbxInit ==
    /\ pc = "ubx_send" /\ MainRest /\ AdcInit /\ QueueIdle /\ DigitIdle /\ TimeIdle
    /\ \E ci \in ClassIdSamples, data \in PayloadSamples :
         LET e == ubx_send_entry(ci[1], ci[2], data, Len(data))
         IN  /\ upc = "ck_hdr"
             /\ msgClass = e.msgClass /\ msgId = e.msgId
             /\ ubxData = e.ubxData /\ ubxLength = e.ubxLength
             /\ header = e.header /\ checksum = e.checksum
             /\ ckSrc = e.ckSrc /\ ckLen = e.ckLen /\ ckIdx = e.ckIdx
    /\ sBytes = << >> /\ sLength = 0
    /\ uartTx = << >> /\ uartTC \in BOOLEAN /\ uartFrames = << >>

SpecUbx == UbxInit /\ [][UbxNext]_vars

(***************************************************************************)
(* Receive queue: uart1_receive_irq against uart_read_byte                 *)
(***************************************************************************)
RxBytes == {1, 2}

\* circbuf.h: the queue is empty when the two indices meet
circbuf_is_empty(w, r) == w = r

\* circbuf.h: store at the write index, then advance it; no check for a full queue
circbuf_append(data, w, byte) ==
    [data |-> [data EXCEPT ![w] = byte], w |-> (w + 1) % CircBufSize]

Unread == Len(appended) - Len(popped)

\* the receive interrupt drops the byte it read from UART1->DR
uart1_receive_irq_drops_byte ==
    /\ ime
    /\ Len(appended) < MaxAppends
    /\ \E byte \in RxBytes : appended' = Append(appended, byte)
    /\ overflowed' = (overflowed \/ Unread + 1 > CircBufSize)
    /\ UNCHANGED <<cbData, cbWrite, cbRead, rpc, popValue, popped>>
    /\ UNCHANGED <<mainVars, busVars, adcVars, ubxVars, digitVars, timeVars>>

\* uart1_receive_irq: runs to completion
uart1_receive_irq ==
    /\ ime
    /\ Len(appended) < MaxAppends
    /\ \E byte \in RxBytes :
         LET r == circbuf_append(cbData, cbWrite, byte)
         IN  /\ cbData' = r.data
             /\ cbWrite' = r.w
             /\ appended' = Append(appended, byte)
    /\ overflowed' = (overflowed \/ Unread + 1 > CircBufSize)
    /\ UNCHANGED <<cbRead, rpc, popValue, popped>>
    /\ UNCHANGED <<mainVars, busVars, adcVars, ubxVars, digitVars, timeVars>>

\* gps_read_time asks for the next byte
uart_read_byte_call ==
    /\ rpc = "idle"
    /\ rpc' = "poll"
    /\ UNCHANGED <<cbData, cbWrite, cbRead, popValue, appended, popped, overflowed>>
    /\ UNCHANGED <<mainVars, busVars, adcVars, ubxVars, digitVars, timeVars>>

\* uart_read_byte goes on to circbuf_pop without looking at circbuf_is_empty
uart_read_byte_poll_unchecked ==
    /\ rpc = "poll"
    /\ rpc' = "pop"
    /\ UNCHANGED <<cbData, cbWrite, cbRead, popValue, appended, popped, overflowed>>
    /\ UNCHANGED <<mainVars, busVars, adcVars, ubxVars, digitVars, timeVars>>

\* line 562: the wait loop is left once the queue is not empty
uart_read_byte_poll ==
    /\ rpc = "poll"
    /\ ~circbuf_is_empty(cbWrite, cbRead)
    /\ rpc' = "pop"
    /\ UNCHANGED <<cbData, cbWrite, cbRead, popValue, appended, popped, overflowed>>
    /\ UNCHANGED <<mainVars, busVars, adcVars, ubxVars, digitVars, timeVars>>

\* circbuf_pop (line 564): the byte at the read index is loaded
circbuf_pop_load ==
    /\ rpc = "pop"
    /\ popValue' = cbData[cbRead]
    /\ rpc' = "advance"
    /\ UNCHANGED <<cbData, cbWrite, cbRead, appended, popped, overflowed>>
    /\ UNCHANGED <<mainVars, busVars, adcVars, ubxVars, digitVars, timeVars>>

\* circbuf_pop: the read index advances last, uart_read_byte returns the byte
circbuf_pop_advance ==
    /\ rpc = "advance"
    /\ cbRead' = (cbRead + 1) % CircBufSize
    /\ popped' = Append(popped, popValue)
    /\ rpc' = "idle"
    /\ UNCHANGED <<cbData, cbWrite, popValue, appended, overflowed>>
    /\ UNCHANGED <<mainVars, busVars, adcVars, ubxVars, digitVars, timeVars>>

QueueInit ==
    /\ pc = "gps_read_time" /\ ime = TRUE /\ MainData
    /\ AdcInit /\ UbxIdle /\ QueueIdle /\ DigitIdle /\ TimeIdle

MainContextReads ==
    \/ uart_read_byte_call
    \/ uart_read_byte_poll
    \/ circbuf_pop_load
    \/ circbuf_pop_advance

QueueNext ==
    \/ uart1_receive_irq
    \/ uart_read_byte_call
    \/ uart_read_byte_poll
    \/ circbuf_pop_load
    \/ circbuf_pop_advance

SpecQueue == QueueInit /\ [][QueueNext]_vars

\* the main context keeps running: a step of it that stays possible is taken
SpecQueueFair == QueueInit /\ [][QueueNext]_vars /\ WF_vars(MainContextReads)

(***************************************************************************)
(* The sampler interrupt on its own: the main context waits for a byte     *)
(***************************************************************************)
AdcHarnessInit ==
    /\ pc = "sampling" /\ ime = TRUE /\ MainData
    /\ AdcInit /\ UbxIdle /\ QueueIdle /\ DigitIdle /\ TimeIdle

SpecAdc == AdcHarnessInit /\ [][adc_irq]_vars

(***************************************************************************)
(* max7219_set_digit_bcd on its own                                        *)
(***************************************************************************)
\* planes the program can hold: all dark, all lit, and the time 12:34:56
PlaneSamples ==
    {[k \in Planes |-> 0],
     [k \in Planes |-> 255],
     display_update_loop([k \in Planes |-> 0], <<12, 34, 56, 0, 0, 0>>, 0, 1)}

BcdSamples == (0..9) \cup {v + 128 : v \in 0..9}

DigitsInit ==
    /\ pc = "set_digit_bcd" /\ ime = FALSE
    /\ initIdx = 0 /\ animIdx = 0 /\ wdIdx = 0 /\ cmdPhase = 0 /\ cmdArgs = <<0, 0>>
    /\ segmentWiseData \in PlaneSamples
    /\ gpsTime = <<0, 0, 0, 0, 0, 0>> /\ status = "none" /\ waitIndicator = 0
    /\ bus = << >> /\ cmds = << >>
    /\ AdcInit /\ UbxIdle /\ QueueIdle /\ DigitIdle /\ TimeIdle

set_digit_bcd_call ==
    /\ callCount < MaxDigitCalls
    /\ \E i \in 1..kNumDigits, v \in BcdSamples :
         /\ segmentWiseData' = max7219_set_digit_bcd(segmentWiseData, i, v)
         /\ callDigit' = i
         /\ callValue' = v
    /\ callCount' = callCount + 1
    /\ callBefore' = segmentWiseData
    /\ UNCHANGED callMask
    /\ UNCHANGED <<pc, ime, initIdx, animIdx, wdIdx, cmdPhase, cmdArgs, gpsTime, status,
                   waitIndicator, busVars, adcVars, ubxVars, queueVars, timeVars>>

SpecDigits == DigitsInit /\ [][set_digit_bcd_call]_vars

\* segment masks: none, all, the 'r' of display_error_code, alternating bits, each
\* single segment, each single segment missing, the patterns of bcdMap
MaskSamples ==
    {0, 255, 80, 85, 170}
    \cup {Pow2(k) : k \in Planes} \cup {255 - Pow2(k) : k \in Planes}
    \cup {bcdMap[v] : v \in 1..16}

set_digit_call ==
    /\ callCount < MaxDigitCalls
    /\ \E i \in 1..kNumDigits, mask \in MaskSamples :
         /\ segmentWiseData' = max7219_set_digit(segmentWiseData, i, mask)
         /\ callDigit' = i
         /\ callMask' = mask
    /\ callCount' = callCount + 1
    /\ callBefore' = segmentWiseData
    /\ UNCHANGED callValue
    /\ UNCHANGED <<pc, ime, initIdx, animIdx, wdIdx, cmdPhase, cmdArgs, gpsTime, status,
                   waitIndicator, busVars, adcVars, ubxVars, queueVars, timeVars>>

SpecSetDigit == DigitsInit /\ [][set_digit_call]_vars

(***************************************************************************)
(* The successful-read path on its own: gps_read_time has just handed over *)
(* a time                                                                  *)
(***************************************************************************)
HourSamples == 0..23

OffsetSamples == (0 - 24)..24

\* every minute and every second of 0..59, and the pair 30:45
MinuteSecondSamples == {<<m, 59 - m>> : m \in 0..59} \cup {<<30, 45>>}

TimeInit ==
    /\ pc = "tz" /\ ime = TRUE
    /\ initIdx = 0 /\ animIdx = 0 /\ wdIdx = 0 /\ cmdPhase = 0 /\ cmdArgs = <<0, 0>>
    /\ segmentWiseData \in PlaneSamples
    /\ \E h \in HourSamples, ms \in MinuteSecondSamples, off \in OffsetSamples :
         /\ (off = timezoneOffset \/ ms = <<30, 45>>)
         /\ gpsTime = <<h, ms[1], ms[2], 1, 11, 26>>
         /\ timeRead = <<h, ms[1], ms[2], 1, 11, 26>>
         /\ tzOffset = off
    /\ status = "kGPS_Success" /\ waitIndicator = 0
    /\ bus = << >> /\ cmds = << >>
    /\ AdcInit /\ UbxIdle /\ QueueIdle /\ DigitIdle

TimeNext ==
    \/ main_apply_timezone_offset
    \/ display_update_begin
    \/ display_update_digits

SpecTime == TimeInit /\ [][TimeNext]_vars

(***************************************************************************)
(* Claims about the display bus and the critical section (Spec)            *)
(***************************************************************************)
\* the bus events seen since the main context last asserted chip select are whole
\* frames: select, two bytes, release, all four by the same context
WholeFrames(log) ==
    \A j \in 1..Len(log) :
        LET k == (j - 1) % 4
        IN  /\ log[j].ev = (CASE k = 0 -> "cs_low" [] k = 3 -> "cs_high" [] OTHER -> "byte")
            /\ log[j].ctx = log[j - k].ctx

\* C1: every (address, data) pair on the display bus is sent inside one chip-select
\* assertion/de-assertion with no byte or chip-select edge of another command in
\* between, whichever main-context caller of max7219_cmd the sampler interrupt meets.
C1_CommandsNeverInterleave == WholeFrames(bus)

InDisplayUpdate == pc \in {"du_digits", "du_wd", "du_enable"}

\* C2: from the digit mutations of display_update to its last flush command the bus
\* carries only the main context's plane commands: command k has address k and the
\* value of plane byte k-1, in ascending order, eight of them when the flush is over,
\* and no intensity command of the sampler interrupt among them.
C2_FlushIsEightPlaneCommands ==
    InDisplayUpdate =>
        /\ cmds = [k \in 1..Len(cmds) |-> Cmd(k, segmentWiseData[k - 1], "main")]
        /\ \A j \in 1..Len(bus) : bus[j].ctx = "main"
        /\ (pc = "du_digits" => Len(cmds) = 0)
        /\ (pc = "du_wd" => Len(cmds) = wdIdx)
        /\ (pc = "du_enable" => Len(cmds) = kNumSegments)

\* a flush of display_update is over, a sampler interrupt was served before it and
\* the planes carry a digit pattern
C2_Witness ==
    /\ pc = "du_enable"
    /\ Len(cmds) = kNumSegments
    /\ adcCount > 0
    /\ segmentWiseData[0] # 0

\* C3: display_update runs with interrupts disabled from entry to return, and once
\* main has enabled interrupts they are enabled whenever the main context is outside
\* display_update.
C3_CriticalSectionBalanced ==
    /\ (InDisplayUpdate => ~ime)
    /\ (pc # "enable" /\ ~InDisplayUpdate => ime)

\* display_update has returned into the loop with interrupts enabled again
C3_Witness ==
    /\ pc = "read"
    /\ status = "kGPS_Success"
    /\ cmds = [k \in 1..kNumSegments |-> Cmd(k, segmentWiseData[k - 1], "main")]
    /\ ime

(***************************************************************************)
(* Claims about the UBX encoder (SpecUbx, and Spec for the startup frame)  *)
(***************************************************************************)
\* s[lo] + .. + s[hi], in unbounded integers (halving keeps the evaluation shallow)
RECURSIVE SumRange(_, _, _)
SumRange(s, lo, hi) ==
    IF lo > hi THEN 0
    ELSE IF lo = hi THEN s[lo]
    ELSE LET mid == (lo + hi) \div 2
         IN  SumRange(s, lo, mid) + SumRange(s, mid + 1, hi)

\* the sum over the non-empty prefixes s[1..k], k in lo..hi .. n, of the prefix sums:
\* s[k] is part of the n - k + 1 prefixes that reach it
RECURSIVE PrefixSumsRange(_, _, _, _)
PrefixSumsRange(s, n, lo, hi) ==
    IF lo > hi THEN 0
    ELSE IF lo = hi THEN (n - lo + 1) * s[lo]
    ELSE LET mid == (lo + hi) \div 2
         IN  PrefixSumsRange(s, n, lo, mid) + PrefixSumsRange(s, n, mid + 1, hi)

Fletcher(s) ==
    <<SumRange(s, 1, Len(s)) % 256, PrefixSumsRange(s, Len(s), 1, Len(s)) % 256>>

\* the bytes ubx_send has folded into its checksum so far
Folded ==
    CASE upc = "idle" -> << >>
      [] upc = "ck_hdr" -> SubSeq(ckSrc, 1, ckIdx)
      [] upc = "ck_data" -> SubSeq(header, 3, 6) \o SubSeq(ubxData, 1, ckIdx)
      [] OTHER -> SubSeq(header, 3, 6) \o SubSeq(ubxData, 1, ubxLength)

\* C6: a finished ubx_send has transmitted 8 + L bytes: the header with L in its
\* length field, the L payload bytes, two checksum bytes; the length field equals
\* the number of payload bytes transmitted.
C6_FrameLengthMatchesField ==
    upc = "done" =>
        /\ Len(uartTx) = 8 + ubxLength
        /\ SubSeq(uartTx, 1, 6) =
              <<181, 98, msgClass, msgId, ubxLength % 256, ubxLength \div 256>>
        /\ SubSeq(uartTx, 7, 6 + ubxLength) = SubSeq(ubxData, 1, ubxLength)
        /\ uartTx[5] + 256 * uartTx[6] = Len(uartTx) - 8

\* C7: the last two bytes of a transmitted frame are the checksum fold, from (0,0),
\* over the transmitted bytes from the class byte to the end of the payload; the two
\* sync bytes are not folded in.
C7_ChecksumCoversTransmitted ==
    upc = "done" =>
        LET n == Len(uartTx)
        IN  SubSeq(uartTx, n - 1, n) = Fletcher(SubSeq(uartTx, 3, n - 2))

\* C8: after any number of steps the accumulator is (sum of the folded bytes mod 256,
\* sum of the prefix sums mod 256), both in 0..255; nothing folded leaves (0,0) and one
\* byte v gives (v, v).
C8_ChecksumIsWrappingFold ==
    /\ checksum = Fletcher(Folded)
    /\ checksum[1] \in Byte /\ checksum[2] \in Byte
    /\ (Len(Folded) = 0 => checksum = <<0, 0>>)
    /\ (Len(Folded) = 1 => checksum = <<Folded[1], Folded[1]>>)

\* a fold over several bytes whose plain sum no longer fits a byte
C8_Witness ==
    /\ upc = "tx_hdr"
    /\ Len(Folded) >= 6
    /\ SumRange(Folded, 1, Len(Folded)) > 255
    /\ checksum[1] # checksum[2]

\* C9 as written: the time-pulse message has a 28-byte payload, 36 bytes go out and
\* the checksum pair is the fold over the 32 non-sync bytes.
C9_TimePulseFrame28 ==
    (pc = "gps_tp5" /\ upc = "done") =>
        /\ msgClass = 6 /\ msgId = 49
        /\ ubxLength = 28
        /\ Len(uartTx) = 36
        /\ SubSeq(uartTx, 35, 36) = Fletcher(SubSeq(uartTx, 3, 34))

\* C9 amended: the time-pulse message (class 0x06, id 0x31) has a 32-byte payload,
\* 40 bytes go out and the checksum pair is the fold over the 36 non-sync bytes.
C9_TimePulseFrame32 ==
    (pc = "gps_tp5" /\ upc = "done") =>
        /\ msgClass = 6 /\ msgId = 49
        /\ ubxLength = 32
        /\ Len(uartTx) = 40
        /\ Len(SubSeq(uartTx, 3, 38)) = 36
        /\ SubSeq(uartTx, 39, 40) = Fletcher(SubSeq(uartTx, 3, 38))

\* the first ubx_send of gps_init has returned
C9_Witness ==
    /\ pc = "gps_tp5" /\ upc = "done"
    /\ uartFrames = <<uartTx>>
    /\ ubxData = cfg_tp5_data

(***************************************************************************)
(* Claims about the receive queue (SpecQueue, SpecQueueFair)               *)
(***************************************************************************)
IsPrefix(a, b) == Len(a) <= Len(b) /\ a = SubSeq(b, 1, Len(a))

\* C4: as long as no more bytes were ever unread than the queue has slots, the bytes
\* uart_read_byte returned are, in order, a prefix of the bytes the interrupt
\* appended; the byte being popped is the oldest unread one; the distance from the
\* read index to the write index is the number of unread bytes modulo the size, and
\* the queue reads as empty exactly when the indices are equal.
C4_StrictFifo ==
    ~overflowed =>
        /\ IsPrefix(popped, appended)
        /\ (rpc = "advance" =>
               /\ Len(popped) < Len(appended)
               /\ popValue = appended[Len(popped) + 1])
        /\ cbWrite = (cbRead + Unread) % CircBufSize
        /\ (circbuf_is_empty(cbWrite, cbRead) <=> Unread % CircBufSize = 0)

\* more bytes went through the queue than it has slots, all of them in order
C4_Witness ==
    /\ ~overflowed
    /\ Len(appended) = MaxAppends
    /\ MaxAppends > CircBufSize
    /\ popped = appended

NeverPopsEmpty == rpc \in {"pop", "advance"} => Unread >= 1

NothingReturnedUnlessAppended == Len(popped) <= Len(appended)

StandardPatterns == <<63, 6, 91, 79, 102, 109, 125, 7, 127, 111>>

\* C10: after max7219_set_digit_bcd(i, v), v in 0..9, the pattern read back for digit
\* i is the standard seven-segment pattern of v; after (i, v + 0x80) it is that
\* pattern with the decimal-point bit 0x80 added and bits 0..6 the same.
C10_BcdPatterns ==
    callCount > 0 =>
        LET p == ReadDigit(segmentWiseData, callDigit)
        IN  /\ (callValue \in 0..9 => p = StandardPatterns[callValue + 1])
            /\ (callValue \in 128..137 =>
                   /\ p = StandardPatterns[callValue - 128 + 1] + 128
                   /\ p % 128 = StandardPatterns[callValue - 128 + 1]
                   /\ BitAt(p, 7) = 1)

\* digit 6 was given 9 with its decimal point over planes that showed 12:34:56
C10_Witness ==
    /\ callCount > 0
    /\ callDigit = 6
    /\ callValue = 137
    /\ ReadDigit(segmentWiseData, 6) = 239
    /\ ReadDigit(segmentWiseData, 5) = bcdMap[5 + 1]

(***************************************************************************)
(* Claims about the brightness controller (SpecAdc)                        *)
(***************************************************************************)
\* the first sample of the window of the last AverageBufferSize readings
WindowStart == IF Len(samples) > AverageBufferSize
               THEN Len(samples) - AverageBufferSize + 1 ELSE 1

\* C11: after any number of sampler interrupts the running total is the arithmetic
\* sum of the 16 entries stored in the sample window, and the write index is in 0..15.
C11_TotalIsWindowSum ==
    /\ runningTotal = SumRange(averageBuffer, 0, AverageBufferSize - 1)
    /\ writeIndex \in 0..(AverageBufferSize - 1)

\* the window is full of the largest reading and its first slot has been overwritten
C11_Witness ==
    /\ Len(samples) > AverageBufferSize
    /\ writeIndex = 1
    /\ runningTotal = AverageBufferSize * 1023

\* C12: after exactly 16 samples the average is floor((v_0 + .. + v_15) / 16); from 16
\* samples on the window holds the 16 most recent readings in arrival order, oldest
\* at the write index, so total and average depend on those readings only.
C12_WindowIsLastReadings ==
    LET n == Len(samples)
    IN  /\ (n = AverageBufferSize =>
               lastAverage = SumRange(samples, 1, AverageBufferSize) \div AverageBufferSize)
        /\ (n >= AverageBufferSize =>
               /\ \A j \in 0..(AverageBufferSize - 1) :
                      averageBuffer[(writeIndex + j) % AverageBufferSize]
                          = samples[WindowStart + j]
               /\ runningTotal = SumRange(samples, WindowStart, n)
               /\ lastAverage = SumRange(samples, WindowStart, n) \div AverageBufferSize)

\* a reading of 1023 followed by 16 readings of 0: it no longer counts
C12_Witness ==
    /\ Len(samples) = AverageBufferSize + 1
    /\ samples[1] = 1023
    /\ \A j \in 2..Len(samples) : samples[j] = 0
    /\ runningTotal = 0
    /\ lastAverage = 0

\* C17: every sampler interrupt issues exactly one display command, address 0x0A, data
\* floor(average / 64) with average = floor(runningTotal / 16); the running total never
\* exceeds 16368, the subtraction of the next step cannot wrap, and the data is in 0..15.
C17_OneIntensityCommand ==
    LET n == Len(samples)
    IN  /\ Len(cmds) = n
        /\ Len(bus) = 4 * n
        /\ \A j \in 1..n :
               /\ cmds[j].address = 10 /\ cmds[j].ctx = "adc"
               /\ cmds[j].data \in 0..15
               /\ SubSeq(bus, 4 * j - 3, 4 * j) = CmdFrame(10, cmds[j].data, "adc")
        /\ (n > 0 =>
               /\ lastAverage = runningTotal \div 16
               /\ cmds[n].data = lastAverage \div 64)
        /\ runningTotal <= 16368
        /\ runningTotal - averageBuffer[writeIndex] >= 0
        /\ runningTotal - averageBuffer[writeIndex] + 1023 <= 65535

\* the intensity went from 0 after the first reading of 1023 to 15 with the window full
C17_Witness ==
    /\ Len(samples) >= AverageBufferSize
    /\ cmds[1].data = 0
    /\ cmds[Len(cmds)].data = 15
    /\ runningTotal = 16368

(***************************************************************************)
(* Claims about the time display (SpecTime)                                *)
(***************************************************************************)
\* hour, minute and second as they are to be shown for the time handed over
Shown == <<(timeRead[HourField] + tzOffset) % 24, timeRead[2], timeRead[3]>>

C14_HourWrapsIntoDay ==
    pc \in {"du_disable", "du_digits", "du_wd"} =>
        /\ gpsTime[HourField] = (timeRead[HourField] + tzOffset) % 24
        /\ gpsTime[HourField] \in 0..23
        /\ \A f \in 2..6 : gpsTime[f] = timeRead[f]

\* 23 h with the configured offset wraps to 12 h
C14_Witness ==
    /\ pc = "du_disable"
    /\ timeRead[HourField] = 23
    /\ tzOffset = timezoneOffset
    /\ gpsTime[HourField] = 12
    /\ SubSeq(gpsTime, 2, 6) = SubSeq(timeRead, 2, 6)

(***************************************************************************)
(* Claim about max7219_set_digit (SpecSetDigit)                            *)
(***************************************************************************)
\* C15: max7219_set_digit(i, mask), i in 1..6, changes in each of the 8 planes k only the
\* bit at position digitMap[i-1], which becomes bit k of mask; the map {0,4,3,1,5,2} is
\* injective on the six digits, so the pattern of every other digit stays as it was and
\* digit i reads back as mask.
C15_SetDigitFrame ==
    /\ SubSeq(digitMap, 1, kNumDigits) = <<0, 4, 3, 1, 5, 2>>
    /\ \A i, j \in 1..kNumDigits : digitMap[i] = digitMap[j] => i = j
    /\ (callCount > 0 =>
           /\ \A k \in Planes, b \in 0..7 :
                  BitAt(segmentWiseData[k], b) =
                      IF b = digitMap[callDigit] THEN BitAt(callMask, k)
                      ELSE BitAt(callBefore[k], b)
           /\ \A j \in (1..kNumDigits) \ {callDigit} :
                  ReadDigit(segmentWiseData, j) = ReadDigit(callBefore, j)
           /\ ReadDigit(segmentWiseData, callDigit) = callMask)

\* digit 2 was given the 'r' mask over planes that showed 12:34:56: digit 1 still
\* shows its 1, digit 6 its 6
C15_Witness ==
    /\ callCount > 0
    /\ callDigit = 2
    /\ callMask = 80
    /\ ReadDigit(callBefore, 2) = bcdMap[2 + 1]
    /\ ReadDigit(segmentWiseData, 2) = 80
    /\ ReadDigit(segmentWiseData, 1) = bcdMap[1 + 1]
    /\ ReadDigit(segmentWiseData, 6) = bcdMap[6 + 1]

(***************************************************************************)
(* Claims about the no-signal indicator, the startup and ownership (Spec)  *)
(***************************************************************************)
\* the commands of a log that the main context issued
MainCmds(log) == SelectSeq(log, LAMBDA c : c.ctx = "main")

\* planes that light the decimal point of logical digit d and nothing else
OnlyPoint(d) == [k \in Planes |-> IF k = 7 THEN Pow2(<<0, 4, 3, 1, 5, 2>>[d]) ELSE 0]

\* the digit the last display_no_signal call lit
LastPointDigit == ((waitIndicator + kNumDigits - 1) % kNumDigits) + 1

\* C16: the indicator counter starts at 0 and stays in 0..5; a call of display_no_signal
\* with the counter at c (c = n mod 6 on the n-th call), whatever the planes held,
\* leaves all planes zero except plane 7, which has the one bit of logical digit c + 1,
\* and moves the counter to (c + 1) mod 6; the flush that follows sends these planes.
C16_PointRotates ==
    /\ waitIndicator = 0
    /\ [](waitIndicator \in 0..(kNumDigits - 1))
    /\ [][pc = "ns" /\ pc' = "ns_wd" =>
             /\ segmentWiseData' = OnlyPoint(waitIndicator + 1)
             /\ waitIndicator' = (waitIndicator + 1) % kNumDigits]_vars
    /\ [](pc = "ns_wd" =>
             /\ segmentWiseData = OnlyPoint(LastPointDigit)
             /\ MainCmds(cmds) =
                   [k \in 1..wdIdx |-> Cmd(k, OnlyPoint(LastPointDigit)[k - 1], "main")])
    /\ [](pc = "read" /\ status = "kGPS_NoSignal" =>
             MainCmds(cmds) =
                 [k \in 1..kNumSegments |-> Cmd(k, OnlyPoint(LastPointDigit)[k - 1], "main")])

\* the sixth call in a row has lit digit 6 and flushed; the counter is back at 0
C16_Witness ==
    /\ pc = "read" /\ status = "kGPS_NoSignal"
    /\ waitIndicator = 0
    /\ segmentWiseData = OnlyPoint(6)
    /\ segmentWiseData[7] = 4
    /\ Len(MainCmds(cmds)) = kNumSegments

\* positions of the main context inside the loop of main
LoopLabels == {"read", "tz", "du_disable", "du_digits", "du_wd", "du_enable",
               "ns", "ns_wd", "err", "err_wd"}

\* a whole frame: header, payload, checksum pair over class..payload
WholeUbxFrame(c, id, data) ==
    LET covered == <<c, id, Len(data) % 256, Len(data) \div 256>> \o data
    IN  <<181, 98>> \o covered \o Fletcher(covered)

\* C18: the main context transmits two frames at startup, class 0x06 id 0x31 first and
\* class 0x06 id 0x24 second, each as header, payload, checksum; a byte is loaded into
\* the data register only when the transmit-complete flag is set; both frames are
\* complete before the loop of main first reads, and nothing is transmitted afterwards
\* (the frames are compared up to the entry of the loop, which leaves them unchanged).
C18_TwoStartupFrames ==
    /\ [](Len(uartFrames) <= 2)
    /\ [](pc \notin LoopLabels /\ Len(uartFrames) >= 1 =>
             uartFrames[1] = WholeUbxFrame(6, 49, cfg_tp5_data))
    /\ [](pc \notin LoopLabels /\ Len(uartFrames) = 2 =>
             uartFrames[2] = WholeUbxFrame(6, 36, cfg_nav5_data))
    /\ [](upc # "idle" =>
             /\ <<msgClass, msgId>> = (IF Len(uartFrames) = 0 \/ uartFrames = <<uartTx>>
                                       THEN <<6, 49>> ELSE <<6, 36>>)
             /\ IsPrefix(uartTx, WholeUbxFrame(msgClass, msgId, ubxData)))
    /\ [](pc \in LoopLabels => Len(uartFrames) = 2 /\ upc = "idle")
    /\ [][Len(uartTx') > Len(uartTx) =>
             uartTC /\ uartTx' = Append(uartTx, uartTx'[Len(uartTx')])]_vars
    /\ [][(pc \in LoopLabels) => uartTx' = uartTx /\ uartFrames' = uartFrames]_vars

\* the loop of main is about to read for the first time: both frames are out
C18_Witness ==
    /\ pc = "read" /\ status = "none"
    /\ Len(uartFrames) = 2
    /\ SubSeq(uartFrames[1], 1, 4) = <<181, 98, 6, 49>> /\ Len(uartFrames[1]) = 40
    /\ SubSeq(uartFrames[2], 1, 4) = <<181, 98, 6, 36>> /\ Len(uartFrames[2]) = 44

\* decode mode off, scan limit 7, test mode off, output enabled
InitOrder == <<Cmd(9, 0, "main"), Cmd(11, 7, "main"), Cmd(15, 0, "main"), Cmd(12, 1, "main")>>

\* max7219_init has returned and the first flush has not begun
InitDone == pc = "wd0" /\ wdIdx = 0 /\ cmdPhase = 0

\* C19: the display driver initialisation issues (0x09,0x00), (0x0B,0x07), (0x0F,0x00),
\* (0x0C,0x01) in this order; in every execution the enable-output command is the last
\* of the four on the display bus, no plane command (address 1..8) of the main context
\* comes before it, and no initialisation command comes after it.
C19_EnableOutputLast ==
    /\ (pc \in {"enable", "init"} =>
           /\ MainCmds(cmds) = SubSeq(InitOrder, 1, initIdx)
           /\ (cmdPhase > 0 => Cmd(cmdArgs[1], cmdArgs[2], "main") = InitOrder[initIdx + 1]))
    /\ (InitDone =>
           /\ MainCmds(cmds) = InitOrder
           /\ MainCmds(cmds)[Len(MainCmds(cmds))] = Cmd(12, 1, "main"))
    /\ (pc \notin {"enable", "init"} /\ ~InitDone =>
           /\ \A j \in 1..Len(cmds) : cmds[j].ctx = "main" => cmds[j].address \in 1..8 \cup {10}
           /\ (cmdPhase > 0 => cmdArgs[1] \in 1..8 \cup {10}))

\* max7219_init has returned; a sampler interrupt put its intensity command among the
\* four, and the output was enabled after it
C19_Witness ==
    /\ InitDone
    /\ Len(cmds) = 5
    /\ cmds[4].ctx = "adc"
    /\ cmds[5] = Cmd(12, 1, "main")

\* a step of the sampler interrupt
AdcStep == adcCount' # adcCount

\* a step in which gps_read_time returns into the switch of main
ReadStep == pc = "read" /\ ~AdcStep /\ uartTC' = uartTC

\* C20: in every interleaving the sampler interrupt leaves the plane buffer and the
\* time value alone, no step of the main context changes the brightness window, its
\* write index or its running total, and a kGPS_NoMatch status leaves the plane buffer
\* and the display bus untouched; so the plane bytes a flush hands to the bus are those
\* the main context last wrote, also when a sampler interrupt preempts the flush.
C20_SingleWriter ==
    /\ [][AdcStep =>
             /\ segmentWiseData' = segmentWiseData
             /\ gpsTime' = gpsTime]_vars
    /\ [][~AdcStep =>
             /\ averageBuffer' = averageBuffer
             /\ writeIndex' = writeIndex
             /\ runningTotal' = runningTotal]_vars
    /\ [][ReadStep /\ status' = "kGPS_NoMatch" =>
             /\ pc' = "read"
             /\ segmentWiseData' = segmentWiseData
             /\ bus' = bus /\ cmds' = cmds]_vars
    /\ [](pc \in WdLabels /\ (cmdPhase > 0 \/ wdIdx > 0) =>
             /\ MainCmds(cmds) = [k \in 1..wdIdx |-> Cmd(k, segmentWiseData[k - 1], "main")]
             /\ (cmdPhase > 0 => cmdArgs = <<wdIdx + 1, segmentWiseData[wdIdx]>>))

\* the flush of display_no_signal is preempted inside its last command: the sampler
\* interrupt has changed its window, the plane byte on its way is the one main wrote
C20_Witness ==
    /\ pc = "ns_wd" /\ wdIdx = 7 /\ cmdPhase = 2
    /\ Len(bus) = 6 /\ bus[3].ctx = "adc"
    /\ runningTotal = 1023
    /\ segmentWiseData[7] # 0
    /\ cmdArgs = <<8, segmentWiseData[7]>>

====
